---- MODULE Spec2Model ----
(***************************************************************************)
(* Model of the spreadsheet extraction core of wrapped-for-linkedin:       *)
(*   backend/src/utils/discovery_parser.py  (DISCOVERY label/value block)  *)
(*   backend/src/utils/sheet_parser.py      (DISCOVERY sheet reader)       *)
(*   backend/src/utils/top_posts_parser.py  (TOP POSTS dual view)          *)
(*                                                                         *)
(* Cell values are openpyxl cell values: None, int, float or str.  Text is *)
(* a sequence of one-character strings, so that stripping, comma removal,  *)
(* splitting and number/date parsing are computed character by character   *)
(* as the Python code computes them.  A float is an exact decimal n/d with *)
(* d a power of ten, kept normalised (no trailing zero in the fraction).   *)
(***************************************************************************)
EXTENDS Integers, Sequences, FiniteSets, TLC

VARIABLES
    int_form,        \* how the argument of parse_integer_value was written
    int_k,           \* the integer the argument was written from (forms of k)
    int_arg,         \* the argument of parse_integer_value
    int_res,         \* its outcome
    int_pc,          \* "idle" | "start" | "done"
    has_discovery,   \* "DISCOVERY" in wb.sheetnames
    disc_grid,       \* rows 1..3 of the DISCOVERY sheet: [label, value]
    discovery_cells, \* the label -> raw value mapping
    disc_res,        \* outcome of extract_discovery_data
    disc_pc,         \* "idle" | "start" | "parsed" | "done" | "failed"
    has_top_posts,   \* "TOP POSTS" in wb.sheetnames
    grid,            \* rows 4..max_row of the TOP POSTS sheet
    posts,           \* the url-keyed dict, as its items in insertion order
    row_idx,         \* loop position, 1 = sheet row 4
    posts_list,      \* the list parse_top_posts_sheet returns
    top_posts,       \* the list get_top_posts returns
    top_pc,          \* "idle" | "start" | "eng" | "imp" | "parsed" | "ranked" | "failed"
    file_data_store, \* _file_data_store: file_id -> stored data (a dict)
    request,         \* file_id of the last GET /discovery/{file_id}, "" before any
    response         \* its answer: [status, ...]

int_vars  == <<int_form, int_k, int_arg, int_res, int_pc>>
disc_vars == <<has_discovery, disc_grid, discovery_cells, disc_res, disc_pc>>
top_vars  == <<has_top_posts, grid, posts, row_idx, posts_list, top_posts, top_pc>>
store_vars == <<file_data_store, request, response>>
vars      == <<int_vars, disc_vars, top_vars, store_vars>>

(***************************************************************************)
(* Bounds of the model.                                                    *)
(***************************************************************************)
MaxK       == 1200   \* integers 0..MaxK are written in every format
MaxPad     == 1      \* blanks put around a comma-separated text
MaxTenths  == 25     \* fractional numeric cells -MaxTenths/10 .. MaxTenths/10
MaxTextLen == 3      \* every text over Alphabet up to this length
MaxRows    == 3      \* data rows of the TOP POSTS sheet (merge scenarios)
MaxRankRows == 4     \* data rows of the TOP POSTS sheet (ranking scenarios)

(***************************************************************************)
(* Cell values.                                                            *)
(***************************************************************************)
None         == [t |-> "none"]
IntCell(k)   == [t |-> "int", n |-> k]
FloatCell(f) == [t |-> "float", f |-> f]
StrCell(s)   == [t |-> "str", s |-> s]

DigitChars == {"0", "1", "2", "3", "4", "5", "6", "7", "8", "9"}
Alphabet   == {"0", "1", ",", " ", "-", ".", "x"}

DigitVal(c) ==
    CASE c = "0" -> 0 [] c = "1" -> 1 [] c = "2" -> 2 [] c = "3" -> 3
      [] c = "4" -> 4 [] c = "5" -> 5 [] c = "6" -> 6 [] c = "7" -> 7
      [] c = "8" -> 8 [] c = "9" -> 9

DigitChar(v) ==
    CASE v = 0 -> "0" [] v = 1 -> "1" [] v = 2 -> "2" [] v = 3 -> "3"
      [] v = 4 -> "4" [] v = 5 -> "5" [] v = 6 -> "6" [] v = 7 -> "7"
      [] v = 8 -> "8" [] v = 9 -> "9"

IsDigits(s) == \A i \in 1..Len(s) : s[i] \in DigitChars

RECURSIVE DigitsValue(_)
DigitsValue(s) ==
    IF s = <<>> THEN 0
    ELSE DigitsValue(SubSeq(s, 1, Len(s) - 1)) * 10 + DigitVal(s[Len(s)])

RECURSIVE Pow10(_)
Pow10(k) == IF k = 0 THEN 1 ELSE 10 * Pow10(k - 1)

\* An exact decimal, normalised: d = 1 or n is not a multiple of ten.
RECURSIVE MkFloat(_, _)
MkFloat(n, d) ==
    IF d > 1 /\ n % 10 = 0 THEN MkFloat(n \div 10, d \div 10)
    ELSE [n |-> n, d |-> d]

FloatLess(a, b) == a.n * b.d < b.n * a.d
FloatZero == MkFloat(0, 1)

\* str.strip() / str.replace(",", "")
RECURSIVE LStrip(_)
LStrip(s) == IF s # <<>> /\ s[1] = " " THEN LStrip(Tail(s)) ELSE s
RECURSIVE RStrip(_)
RStrip(s) ==
    IF s # <<>> /\ s[Len(s)] = " " THEN RStrip(SubSeq(s, 1, Len(s) - 1)) ELSE s
Strip(s) == RStrip(LStrip(s))
IsNotComma(c) == c # ","
RemoveCommas(s) == SelectSeq(s, IsNotComma)

\* float(<str>): blanks around are ignored, then [sign] digits [. digits] with
\* at least one digit; anything else is a ValueError.
FloatOfText(s) ==
    LET t      == Strip(s)
        signed == t # <<>> /\ t[1] \in {"+", "-"}
        neg    == t # <<>> /\ t[1] = "-"
        body   == IF signed THEN Tail(t) ELSE t
        points == {i \in 1..Len(body) : body[i] = "."}
        p      == IF points = {} THEN Len(body) + 1
                  ELSE CHOOSE i \in points : \A j \in points : i <= j
        ip     == SubSeq(body, 1, p - 1)
        fp     == SubSeq(body, p + 1, Len(body))
        mag    == DigitsValue(ip \o fp)
    IN  IF IsDigits(ip) /\ IsDigits(fp) /\ Len(ip) + Len(fp) > 0
        THEN [ok |-> TRUE,
              val |-> MkFloat(IF neg THEN 0 - mag ELSE mag, Pow10(Len(fp)))]
        ELSE [ok |-> FALSE, exc |-> "ValueError"]

\* float(value) for a cell value.
ToFloat(value) ==
    CASE value.t = "none"  -> [ok |-> FALSE, exc |-> "TypeError"]
      [] value.t = "int"   -> [ok |-> TRUE, val |-> MkFloat(value.n, 1)]
      [] value.t = "float" -> [ok |-> TRUE, val |-> value.f]
      [] value.t = "str"   -> FloatOfText(value.s)

\* int(<float>): truncation toward zero.
IntOfFloat(f) == IF f.n >= 0 THEN f.n \div f.d ELSE 0 - ((0 - f.n) \div f.d)

\* parse_integer_value with the comma removal of line 71 left out
parse_integer_value_KeepCommas(value) ==
    LET v == IF value.t = "str" THEN StrCell(Strip(value.s)) ELSE value
        f == ToFloat(v)
    IN  IF f.ok
        THEN [ok |-> TRUE, val |-> IntOfFloat(f.val)]
        ELSE [ok |-> FALSE, exc |-> "ValueError",
              msg |-> "Failed to parse integer value"]

\* parse_integer_value(value)
parse_integer_value(value) ==
    LET v == IF value.t = "str"
             THEN StrCell(Strip(RemoveCommas(value.s)))
             ELSE value
        f == ToFloat(v)
    IN  IF f.ok
        THEN [ok |-> TRUE, val |-> IntOfFloat(f.val)]
        ELSE [ok |-> FALSE, exc |-> "ValueError",
              msg |-> "Failed to parse integer value"]

(***************************************************************************)
(* How a spreadsheet writes the integer k: plain digits, or digits with    *)
(* thousands-separator commas.                                             *)
(***************************************************************************)
RECURSIVE DigitsOf(_)
DigitsOf(k) ==
    IF k < 10 THEN <<DigitChar(k)>>
    ELSE DigitsOf(k \div 10) \o <<DigitChar(k % 10)>>

Pad3(k) ==
    <<DigitChar(k \div 100), DigitChar((k \div 10) % 10), DigitChar(k % 10)>>

RECURSIVE CommaText(_)
CommaText(k) ==
    IF k < 1000 THEN DigitsOf(k)
    ELSE CommaText(k \div 1000) \o <<",">> \o Pad3(k % 1000)

Blanks(n) == [i \in 1..n |-> " "]

RECURSIVE TextsUpTo(_)
TextsUpTo(n) ==
    IF n = 0 THEN {<<>>}
    ELSE LET shorter == TextsUpTo(n - 1)
         IN  shorter \cup {Append(s, c) : s \in {x \in shorter : Len(x) = n - 1},
                                          c \in Alphabet}

Ks == (0..MaxK) \cup {857000, 1234567}

\* [form, k, arg]: the arguments parse_integer_value is applied to.
IntInputs ==
    {[form |-> "int", k |-> k, arg |-> IntCell(k)] : k \in Ks}
    \cup {[form |-> "float", k |-> k, arg |-> FloatCell(MkFloat(k, 1))] : k \in Ks}
    \cup {[form |-> "plain", k |-> k, arg |-> StrCell(DigitsOf(k))] : k \in Ks}
    \cup {[form |-> "comma", k |-> k,
           arg |-> StrCell(Blanks(l) \o CommaText(k) \o Blanks(r))] :
              k \in Ks, l \in 0..MaxPad, r \in 0..MaxPad}
    \cup {[form |-> "frac", k |-> n, arg |-> FloatCell(MkFloat(n, 10))] :
              n \in (0 - MaxTenths)..MaxTenths}
    \cup {[form |-> "none", k |-> 0, arg |-> None]}
    \cup {[form |-> "text", k |-> 0, arg |-> StrCell(s)] : s \in TextsUpTo(MaxTextLen)}

IntIdle == int_form = "idle" /\ int_k = 0 /\ int_arg = None /\ int_res = None
           /\ int_pc = "idle"

InitInt ==
    /\ \E i \in IntInputs :
          int_form = i.form /\ int_k = i.k /\ int_arg = i.arg
    /\ int_res = None
    /\ int_pc = "start"

\* One call of parse_integer_value on the argument.
ParseIntegerValue ==
    /\ int_pc = "start"
    /\ int_res' = parse_integer_value(int_arg)
    /\ int_pc' = "done"
    /\ UNCHANGED <<int_form, int_k, int_arg>>

(***************************************************************************)
(* DISCOVERY: dates and the date range.                                    *)
(***************************************************************************)
\* str.split(sep) for a one-character separator.
RECURSIVE SplitOn(_, _)
SplitOn(s, c) ==
    LET hits == {i \in 1..Len(s) : s[i] = c}
    IN  IF hits = {} THEN <<s>>
        ELSE LET i == CHOOSE h \in hits : \A j \in hits : h <= j
             IN  <<SubSeq(s, 1, i - 1)>> \o SplitOn(SubSeq(s, i + 1, Len(s)), c)

\* date_range_str.split(" - ")
RangeSep == <<" ", "-", " ">>
RECURSIVE SplitRange(_)
SplitRange(s) ==
    LET hits == {i \in 1..(Len(s) - 2) : SubSeq(s, i, i + 2) = RangeSep}
    IN  IF hits = {} THEN <<s>>
        ELSE LET i == CHOOSE h \in hits : \A j \in hits : h <= j
             IN  <<SubSeq(s, 1, i - 1)>> \o SplitRange(SubSeq(s, i + 3, Len(s)))

IsLeap(y) == (y % 4 = 0 /\ y % 100 # 0) \/ y % 400 = 0
DaysInMonth(y, m) ==
    IF m = 2 THEN (IF IsLeap(y) THEN 29 ELSE 28)
    ELSE IF m \in {4, 6, 9, 11} THEN 30 ELSE 31

\* datetime.strptime(s, "%m/%d/%Y").date(): one or two digits of month (1..12),
\* one or two digits of day (1..31, or a blank and one digit), exactly four
\* digits of year; then the calendar check of date().
Strptime(s) ==
    LET parts == SplitOn(s, "/")
        mt    == parts[1]
        dt    == parts[2]
        yt    == parts[3]
        m_ok  == IsDigits(mt) /\ Len(mt) \in {1, 2} /\ DigitsValue(mt) \in 1..12
        d_ok  == \/ IsDigits(dt) /\ Len(dt) \in {1, 2} /\ DigitsValue(dt) \in 1..31
                 \/ Len(dt) = 2 /\ dt[1] = " " /\ dt[2] \in DigitChars \ {"0"}
        y_ok  == IsDigits(yt) /\ Len(yt) = 4
        m     == DigitsValue(mt)
        d     == DigitsValue(IF dt[1] = " " THEN Tail(dt) ELSE dt)
        y     == DigitsValue(yt)
    IN  IF Len(parts) = 3 /\ m_ok /\ d_ok /\ y_ok /\ y >= 1 /\ d <= DaysInMonth(y, m)
        THEN [ok |-> TRUE, date |-> [y |-> y, m |-> m, d |-> d]]
        ELSE [ok |-> FALSE, exc |-> "ValueError"]

DateLeq(a, b) ==
    \/ a.y < b.y
    \/ a.y = b.y /\ a.m < b.m
    \/ a.y = b.y /\ a.m = b.m /\ a.d <= b.d

\* parse_date_range(date_range_str)
parse_date_range(date_range_str) ==
    LET dates == SplitRange(Strip(date_range_str))
        s     == Strptime(Strip(dates[1]))
        e     == Strptime(Strip(dates[2]))
    IN  IF Len(dates) = 2 /\ s.ok /\ e.ok
        THEN [ok |-> TRUE, start_date |-> s.date, end_date |-> e.date]
        ELSE [ok |-> FALSE, exc |-> "ValueError",
              msg |-> "Failed to parse date range"]

\* str(value) of a cell value.
RECURSIVE FracDigits(_, _)
FracDigits(r, d) ==
    IF d = 1 THEN <<>> ELSE FracDigits(r \div 10, d \div 10) \o <<DigitChar(r % 10)>>
NatText(n) == DigitsOf(n)
IntText(n) == IF n < 0 THEN <<"-">> \o NatText(0 - n) ELSE NatText(n)
FloatText(f) ==
    LET a == IF f.n < 0 THEN 0 - f.n ELSE f.n
    IN  (IF f.n < 0 THEN <<"-">> ELSE <<>>) \o NatText(a \div f.d) \o <<".">>
        \o (IF f.d = 1 THEN <<"0">> ELSE FracDigits(a % f.d, f.d))
StrOf(value) ==
    CASE value.t = "none"  -> <<"N", "o", "n", "e">>
      [] value.t = "int"   -> IntText(value.n)
      [] value.t = "float" -> FloatText(value.f)
      [] value.t = "str"   -> value.s

(***************************************************************************)
(* DISCOVERY: the sheet reader and the parser.                             *)
(***************************************************************************)
OverallPerformance == "Overall Performance"
Impressions        == "Impressions"
MembersReached     == "Members reached"
required_fields    == {OverallPerformance, Impressions, MembersReached}

LabelCell(name) == [t |-> "label", name |-> name]
DiscRows == 3

\* parse_discovery_sheet: the mapping built from rows 1..DiscRows, a later row
\* with the same label replacing an earlier one; null labels are skipped.
RECURSIVE ReadDiscoveryRows(_, _)
ReadDiscoveryRows(g, n) ==
    IF n = 0 THEN <<>>
    ELSE LET before == ReadDiscoveryRows(g, n - 1)
             row    == g[n]
         IN  IF row.label = None THEN before
             ELSE [l \in (DOMAIN before) \cup {row.label.name} |->
                      IF l = row.label.name THEN row.value ELSE before[l]]

\* line 101 taking a label with a null value for an absent one
MissingFields_NullIsMissing(cells) ==
    required_fields \ {l \in DOMAIN cells : cells[l] # None}

\* the set difference of line 101
MissingFields(cells) == required_fields \ DOMAIN cells

\* extract_discovery_data(discovery_cells)
extract_discovery_data(cells) ==
    IF ~ (\A field \in required_fields : field \in DOMAIN cells)
    THEN [kind |-> "ValueError", msg |-> "Missing required discovery fields",
          missing |-> MissingFields(cells)]
    ELSE LET range   == parse_date_range(StrOf(cells[OverallPerformance]))
             imps    == parse_integer_value(cells[Impressions])
             members == parse_integer_value(cells[MembersReached])
         IN  IF ~ range.ok
             THEN [kind |-> "ValueError", msg |-> "Failed to extract discovery data",
                   cause |-> range.msg]
             ELSE IF ~ imps.ok
             THEN [kind |-> "ValueError", msg |-> "Failed to extract discovery data",
                   cause |-> imps.msg]
             ELSE IF ~ members.ok
             THEN [kind |-> "ValueError", msg |-> "Failed to extract discovery data",
                   cause |-> members.msg]
             ELSE [kind |-> "DiscoveryData",
                   start_date |-> range.start_date,
                   end_date |-> range.end_date,
                   total_impressions |-> imps.val,
                   members_reached |-> members.val]

(***************************************************************************)
(* DISCOVERY inputs: what the three rows may hold.                         *)
(***************************************************************************)
Pad2(k) == <<DigitChar(k \div 10), DigitChar(k % 10)>>
DateText(dt) == Pad2(dt[1]) \o <<"/">> \o Pad2(dt[2]) \o <<"/">> \o DigitsOf(dt[3])

\* <<month, day, year>>; 02/29/2023 is not a calendar date.
SampleDates == {<<1, 1, 2024>>, <<2, 29, 2024>>, <<2, 29, 2023>>, <<12, 31, 2023>>}

RangeTexts ==
    {DateText(a) \o RangeSep \o DateText(b) : a \in SampleDates, b \in SampleDates}
    \cup {<<" ">> \o DateText(<<11, 11, 2024>>) \o <<" ">> \o RangeSep
             \o DateText(<<11, 10, 2025>>) \o <<" ">>,
          DateText(<<1, 1, 2024>>) \o <<"-">> \o DateText(<<1, 2, 2024>>),
          DateText(<<1, 1, 2024>>) \o RangeSep \o DateText(<<1, 2, 2024>>)
             \o RangeSep \o DateText(<<1, 3, 2024>>),
          <<"b", "a", "d", "-", "f", "o", "r", "m", "a", "t">>}

RangeValues == {StrCell(s) : s \in RangeTexts} \cup {None, FloatCell(MkFloat(1200, 1))}

CounterValues ==
    {FloatCell(MkFloat(1200, 1)), StrCell(CommaText(1200)), IntCell(7),
     FloatCell(MkFloat(0 - 5, 1)), FloatCell(MkFloat(125, 10)),
     StrCell(<<"x">>), None}

DiscRowChoices ==
    {[label |-> None, value |-> None],
     [label |-> LabelCell("Followers"), value |-> None]}
    \cup {[label |-> LabelCell(OverallPerformance), value |-> v] : v \in RangeValues}
    \cup {[label |-> LabelCell(l), value |-> v] :
             l \in {Impressions, MembersReached}, v \in CounterValues}

DiscIdle ==
    /\ has_discovery = FALSE /\ disc_grid = <<>> /\ discovery_cells = <<>>
    /\ disc_res = None /\ disc_pc = "idle"

InitDisc ==
    /\ \/ has_discovery = FALSE /\ disc_grid = <<>>
       \/ has_discovery = TRUE /\ disc_grid \in [1..DiscRows -> DiscRowChoices]
    /\ discovery_cells = <<>>
    /\ disc_res = None
    /\ disc_pc = "start"

\* parse_discovery_sheet(file_content)
ParseDiscoverySheet ==
    /\ disc_pc = "start"
    /\ IF has_discovery
       THEN /\ discovery_cells' = ReadDiscoveryRows(disc_grid, DiscRows)
            /\ disc_res' = disc_res
            /\ disc_pc' = "parsed"
       ELSE /\ discovery_cells' = discovery_cells
            /\ disc_res' = [kind |-> "ValueError",
                            msg |-> "Failed to parse DISCOVERY sheet"]
            /\ disc_pc' = "failed"
    /\ UNCHANGED <<has_discovery, disc_grid>>

\* extract_discovery_data(discovery_cells) on the mapping just read
ExtractDiscoveryData ==
    /\ disc_pc = "parsed"
    /\ disc_res' = extract_discovery_data(discovery_cells)
    /\ disc_pc' = "done"
    /\ UNCHANGED <<has_discovery, disc_grid, discovery_cells>>

(***************************************************************************)
(* TOP POSTS: the url-keyed dict and the two row updates.                  *)
(***************************************************************************)
\* Truth value of a cell value ("... if engagements else 0").
Truthy(value) ==
    CASE value.t = "none"  -> FALSE
      [] value.t = "int"   -> value.n # 0
      [] value.t = "float" -> value.f.n # 0
      [] value.t = "str"   -> value.s # <<>>

\* try: float(x) if x else 0  except (ValueError, TypeError): 0
LenientFloat(value) ==
    IF ~ Truthy(value) THEN FloatZero
    ELSE LET f == ToFloat(value)
         IN  IF f.ok THEN f.val ELSE FloatZero

\* A dict as the sequence of its values in insertion order, keyed by "url".
Keys(d) == {d[i].url : i \in 1..Len(d)}
IndexOf(d, key) == CHOOSE i \in 1..Len(d) : d[i].url = key
\* d[key] = rec: a new key goes last, an existing key keeps its place.
DictSet(d, key, rec) ==
    IF key \in Keys(d) THEN [d EXCEPT ![IndexOf(d, key)] = rec]
    ELSE Append(d, rec)

\* Lines 71-77: posts[url_str] = {...} for an engagement-view row.
EngRowUpdate(d, row) ==
    LET url_str == StrOf(row.url)
    IN  DictSet(d, url_str,
                [url |-> url_str,
                 publish_date |-> StrOf(row.publish_date),
                 engagements |-> LenientFloat(row.engagements),
                 impressions |-> FloatZero])

\* Lines 97-107: the merge of an impression-view row.
ImpRowUpdate(d, row) ==
    LET url_str == StrOf(row.iurl)
        impressions_count == LenientFloat(row.impressions)
    IN  IF url_str \in Keys(d)
        THEN [d EXCEPT ![IndexOf(d, url_str)].impressions = impressions_count]
        ELSE Append(d, [url |-> url_str,
                        publish_date |-> <<>>,
                        engagements |-> FloatZero,
                        impressions |-> impressions_count])

\* the end-of-data test taking any null cell of columns 1-3 for the end
EngStops_AnyNull(row) ==
    row.url = None \/ row.publish_date = None \/ row.engagements = None

\* Lines 54-59 and 62-63: the end-of-data test and the skip test, columns 1-3.
EngStops(row) == row.url = None /\ row.publish_date = None /\ row.engagements = None
EngSkips(row) == row.url = None \/ row.publish_date = None
\* Lines 85-89: the same for columns 5 and 7.
ImpStops(row) == row.iurl = None /\ row.impressions = None
ImpSkips(row) == row.iurl = None \/ row.impressions = None

\* The engagement loop from row i on, as one fold.
RECURSIVE EngScan(_, _, _)
EngScan(d, g, i) ==
    IF i > Len(g) \/ EngStops(g[i]) THEN d
    ELSE EngScan(IF EngSkips(g[i]) THEN d ELSE EngRowUpdate(d, g[i]), g, i + 1)

\* The impression loop from row i on, as one fold.
RECURSIVE ImpScan(_, _, _)
ImpScan(d, g, i) ==
    IF i > Len(g) \/ ImpStops(g[i]) THEN d
    ELSE ImpScan(IF ImpSkips(g[i]) THEN d ELSE ImpRowUpdate(d, g[i]), g, i + 1)

\* list.sort(key=engagements, reverse=True): stable, so x goes after every
\* element whose engagements are not less than its own.
InsertDesc_Unstable(sorted, x) ==
    LET before == {i \in 0..Len(sorted) :
                      \A j \in 1..i : FloatLess(x.engagements, sorted[j].engagements)}
        k      == CHOOSE i \in before : \A j \in before : j <= i
    IN  SubSeq(sorted, 1, k) \o <<x>> \o SubSeq(sorted, k + 1, Len(sorted))

InsertDesc(sorted, x) ==
    LET before == {i \in 0..Len(sorted) :
                      \A j \in 1..i : ~ FloatLess(sorted[j].engagements, x.engagements)}
        k      == CHOOSE i \in before : \A j \in before : j <= i
    IN  SubSeq(sorted, 1, k) \o <<x>> \o SubSeq(sorted, k + 1, Len(sorted))

RECURSIVE SortByEngagements(_)
SortByEngagements(l) ==
    IF l = <<>> THEN <<>>
    ELSE InsertDesc(SortByEngagements(SubSeq(l, 1, Len(l) - 1)), l[Len(l)])

\* get_top_posts: the slice shares its records with the list it is cut from,
\* so post["rank"] = idx writes into the caller's records.
TopLimit == 6
Min(a, b) == IF a < b THEN a ELSE b
WithRank(rec, idx) ==
    [x \in (DOMAIN rec) \cup {"rank"} |-> IF x = "rank" THEN idx ELSE rec[x]]
RankedRecords(l) ==
    [i \in 1..Len(l) |-> IF i <= TopLimit THEN WithRank(l[i], i) ELSE l[i]]
TopSlice(l) == SubSeq(l, 1, Min(TopLimit, Len(l)))

(***************************************************************************)
(* TOP POSTS inputs.                                                       *)
(***************************************************************************)
Row(u, p, e, iu, im) ==
    [url |-> u, publish_date |-> p, engagements |-> e, iurl |-> iu, impressions |-> im]

UrlA == StrCell(<<"a">>)
UrlB == StrCell(<<"b">>)
UrlC == StrCell(<<"c">>)
DateCell == StrCell(<<"d">>)
Num(n) == FloatCell(MkFloat(n, 1))

\* columns 1-3
EngSides ==
    {<<None, None, None>>,
     <<UrlA, DateCell, Num(5)>>,
     <<UrlA, DateCell, None>>,
     <<UrlB, DateCell, StrCell(CommaText(1200))>>,
     <<UrlB, DateCell, StrCell(<<"x">>)>>,
     <<UrlB, DateCell, Num(0 - 3)>>,
     <<None, DateCell, Num(5)>>,
     <<UrlA, None, Num(5)>>}

\* columns 5 and 7
ImpSides ==
    {<<None, None>>,
     <<UrlA, Num(7)>>,
     <<UrlC, Num(7)>>,
     <<UrlC, None>>,
     <<UrlC, StrCell(<<"x">>)>>,
     <<UrlC, StrCell(CommaText(1200))>>,
     <<None, Num(7)>>}

\* Every engagement side beside an empty impression side, and every
\* impression side beside an empty and beside a plain engagement side.
RowChoices ==
    {Row(e[1], e[2], e[3], None, None) : e \in EngSides}
    \cup {Row(None, None, None, i[1], i[2]) : i \in ImpSides}
    \cup {Row(UrlA, DateCell, Num(5), i[1], i[2]) : i \in ImpSides}

\* Ranking scenarios: row r has its own urls "e<r>" and "i<r>", or repeats "e1".
UrlE(r) == StrCell(<<"e", DigitChar(r)>>)
UrlI(r) == StrCell(<<"i", DigitChar(r)>>)
RankRowChoices(r) ==
    {Row(e[1], DateCell, e[2], iu, Num(7)) :
        e \in {<<UrlE(r), Num(5)>>, <<UrlE(r), Num(9)>>, <<UrlE(1), Num(9)>>},
        iu \in {UrlI(r), UrlE(1)}}

RECURSIVE RankGrids(_)
RankGrids(n) ==
    IF n = 0 THEN {<<>>}
    ELSE {Append(g, row) : g \in RankGrids(n - 1), row \in RankRowChoices(n)}

TopIdle ==
    /\ has_top_posts = FALSE /\ grid = <<>> /\ posts = <<>> /\ row_idx = 0
    /\ posts_list = <<>> /\ top_posts = <<>> /\ top_pc = "idle"

TopStart ==
    /\ posts = <<>> /\ row_idx = 0 /\ posts_list = <<>> /\ top_posts = <<>>
    /\ top_pc = "start"

InitTop ==
    /\ \/ has_top_posts = FALSE /\ grid = <<>>
       \/ has_top_posts = TRUE
          /\ grid \in UNION {[1..n -> RowChoices] : n \in 0..MaxRows}
    /\ TopStart

InitRank ==
    /\ \/ has_top_posts = FALSE /\ grid = <<>>
       \/ has_top_posts = TRUE
          /\ grid \in UNION {RankGrids(n) : n \in 0..MaxRankRows}
    /\ TopStart

(***************************************************************************)
(* TOP POSTS: parse_top_posts_sheet step by step, then get_top_posts.      *)
(***************************************************************************)
\* Lines 36-44: open the sheet, start with an empty dict.
OpenTopPosts ==
    /\ top_pc = "start"
    /\ IF has_top_posts
       THEN top_pc' = "eng" /\ row_idx' = 1
       ELSE top_pc' = "failed" /\ row_idx' = row_idx
    /\ UNCHANGED <<has_top_posts, grid, posts, posts_list, top_posts>>

\* One pass of the engagement loop that stays in the loop.
EngagementRow ==
    /\ top_pc = "eng"
    /\ row_idx <= Len(grid)
    /\ ~ EngStops(grid[row_idx])
    /\ posts' = IF EngSkips(grid[row_idx]) THEN posts
                ELSE EngRowUpdate(posts, grid[row_idx])
    /\ row_idx' = row_idx + 1
    /\ UNCHANGED <<has_top_posts, grid, posts_list, top_posts, top_pc>>

\* The engagement loop ends: the break, or the rows are used up.
EngagementEnd ==
    /\ top_pc = "eng"
    /\ IF row_idx > Len(grid) THEN TRUE ELSE EngStops(grid[row_idx])
    /\ top_pc' = "imp"
    /\ row_idx' = 1
    /\ UNCHANGED <<has_top_posts, grid, posts, posts_list, top_posts>>

\* One pass of the impression loop that stays in the loop.
ImpressionRow ==
    /\ top_pc = "imp"
    /\ row_idx <= Len(grid)
    /\ ~ ImpStops(grid[row_idx])
    /\ posts' = IF ImpSkips(grid[row_idx]) THEN posts
                ELSE ImpRowUpdate(posts, grid[row_idx])
    /\ row_idx' = row_idx + 1
    /\ UNCHANGED <<has_top_posts, grid, posts_list, top_posts, top_pc>>

\* The impression loop ends; the dict's values are sorted and returned.
ImpressionEnd ==
    /\ top_pc = "imp"
    /\ IF row_idx > Len(grid) THEN TRUE ELSE ImpStops(grid[row_idx])
    /\ posts_list' = SortByEngagements(posts)
    /\ top_pc' = "parsed"
    /\ UNCHANGED <<has_top_posts, grid, posts, row_idx, top_posts>>

\* get_top_posts(posts_list)
GetTopPosts ==
    /\ top_pc = "parsed"
    /\ posts_list' = RankedRecords(posts_list)
    /\ top_posts' = TopSlice(RankedRecords(posts_list))
    /\ top_pc' = "ranked"
    /\ UNCHANGED <<has_top_posts, grid, posts, row_idx>>

(***************************************************************************)
(* The in-memory store and GET /discovery/{file_id}.                       *)
(***************************************************************************)
FileIds == {"f1", "f2", "f3"}

\* Records of the parser, as extract_discovery_data returns them.
ParsedDiscovery(range_text, impressions_cell) ==
    extract_discovery_data(
        [l \in required_fields |->
            IF l = OverallPerformance THEN StrCell(range_text)
            ELSE IF l = Impressions THEN impressions_cell
            ELSE IntCell(7)])
ParserRecords ==
    {ParsedDiscovery(DateText(<<1, 1, 2024>>) \o RangeSep \o DateText(<<2, 29, 2024>>),
                     Num(1200)),
     ParsedDiscovery(DateText(<<12, 31, 2023>>) \o RangeSep \o DateText(<<1, 1, 2024>>),
                     StrCell(CommaText(857000)))}

\* What store_file_data is given: a dict, with or without "discovery_data";
\* the discovery value is a parser object, a plain dict or None.
PlainDiscovery == [kind |-> "dict", total_impressions |-> 5]
StoredData ==
    {<<>>, [top_posts |-> <<>>]}
    \cup {[discovery_data |-> d] : d \in ParserRecords \cup {PlainDiscovery, None}}
    \cup {[discovery_data |-> d, top_posts |-> <<>>] : d \in ParserRecords}

NoResponse == [status |-> 0]

InitStore == file_data_store = <<>> /\ request = "" /\ response = NoResponse

\* store_file_data(file_id, data)
StoreFileData(file_id, data) ==
    /\ file_data_store' =
          [f \in (DOMAIN file_data_store) \cup {file_id} |->
              IF f = file_id THEN data ELSE file_data_store[f]]
    /\ UNCHANGED <<request, response>>

\* get_file_data(file_id): _file_data_store.get(file_id)
get_file_data(file_id) ==
    IF file_id \in DOMAIN file_data_store THEN file_data_store[file_id] ELSE None

\* the truth value of what get_file_data returns: None and {} are false
DataTruthy(data) == data # None /\ DOMAIN data # {}

\* DiscoveryData(start_date=..., ...): the schema model of a parser object
ToSchema(discovery) ==
    [kind |-> "schemas.DiscoveryData",
     start_date |-> discovery.start_date,
     end_date |-> discovery.end_date,
     total_impressions |-> discovery.total_impressions,
     members_reached |-> discovery.members_reached]

\* get_discovery_data(file_id)
get_discovery_data(file_id) ==
    LET data == get_file_data(file_id)
    IN  IF DataTruthy(data) /\ "discovery_data" \in DOMAIN data
        THEN LET discovery == data["discovery_data"]
             IN  IF discovery # None /\ discovery.kind = "DiscoveryData"
                 THEN ToSchema(discovery)
                 ELSE discovery
        ELSE None

\* Is HTTPException caught by "except Exception"?  It is an Exception.
HTTPExceptionIsException == TRUE

\* get_discovery(file_id): the HTTPException(404) is raised inside the try
\* block, whose "except Exception" turns every exception into a 500.
get_discovery(file_id) ==
    LET discovery == get_discovery_data(file_id)
    IN  IF discovery = None
        THEN IF HTTPExceptionIsException
             THEN [status |-> 500, cause |-> 404,
                   detail |-> "Discovery data not found for this file"]
             ELSE [status |-> 404,
                   detail |-> "Discovery data not found for this file"]
        ELSE [status |-> 200, body |-> discovery]

\* GET /discovery/{file_id}
GetDiscovery(file_id) ==
    /\ request' = file_id
    /\ response' = get_discovery(file_id)
    /\ UNCHANGED file_data_store

(***************************************************************************)
(* Specifications.                                                         *)
(***************************************************************************)
NextInt == ParseIntegerValue /\ UNCHANGED <<disc_vars, top_vars, store_vars>>

NextDisc ==
    \/ ParseDiscoverySheet /\ UNCHANGED <<int_vars, top_vars, store_vars>>
    \/ ExtractDiscoveryData /\ UNCHANGED <<int_vars, top_vars, store_vars>>

NextTop ==
    \/ OpenTopPosts /\ UNCHANGED <<int_vars, disc_vars, store_vars>>
    \/ EngagementRow /\ UNCHANGED <<int_vars, disc_vars, store_vars>>
    \/ EngagementEnd /\ UNCHANGED <<int_vars, disc_vars, store_vars>>
    \/ ImpressionRow /\ UNCHANGED <<int_vars, disc_vars, store_vars>>
    \/ ImpressionEnd /\ UNCHANGED <<int_vars, disc_vars, store_vars>>
    \/ GetTopPosts /\ UNCHANGED <<int_vars, disc_vars, store_vars>>

NextStore ==
    \/ \E f \in FileIds, data \in StoredData :
          StoreFileData(f, data) /\ UNCHANGED <<int_vars, disc_vars, top_vars>>
    \/ \E f \in FileIds :
          GetDiscovery(f) /\ UNCHANGED <<int_vars, disc_vars, top_vars>>

InitSpecInt  == InitInt /\ DiscIdle /\ TopIdle /\ InitStore
InitSpecDisc == IntIdle /\ InitDisc /\ TopIdle /\ InitStore
InitSpecTop  == IntIdle /\ DiscIdle /\ InitTop /\ InitStore
InitSpecRank == IntIdle /\ DiscIdle /\ InitRank /\ InitStore
InitSpecStore == IntIdle /\ DiscIdle /\ TopIdle /\ InitStore

\* store_file_data and GET /discovery/{file_id} in any order
SpecStore == InitSpecStore /\ [][NextStore]_vars

\* parse_integer_value on every argument of IntInputs
SpecInt  == InitSpecInt /\ [][NextInt]_vars
\* the DISCOVERY pipeline on every three-row sheet of DiscRowChoices
SpecDisc == InitSpecDisc /\ [][NextDisc]_vars
\* the TOP POSTS pipeline on the merge scenarios
SpecTop  == InitSpecTop /\ [][NextTop]_vars
\* the TOP POSTS pipeline on the ranking scenarios
SpecRank == InitSpecRank /\ [][NextTop]_vars

(***************************************************************************)
(* Properties of the DISCOVERY parser.                                     *)
(***************************************************************************)
IsDiscoveryData == disc_pc = "done" /\ disc_res.kind = "DiscoveryData"
IsMissingFieldError ==
    /\ disc_pc = "done"
    /\ disc_res.kind = "ValueError"
    /\ disc_res.msg = "Missing required discovery fields"
\* the required labels that no row of the sheet carries
AbsentLabels ==
    {l \in {"Overall Performance", "Impressions", "Members reached"} :
        \A r \in 1..Len(disc_grid) : disc_grid[r].label # LabelCell(l)}

\* C1: every record extract_discovery_data returns has start_date <= end_date;
\* a range whose second date is earlier than its first is not returned.
C1_StartNotAfterEnd ==
    IsDiscoveryData => DateLeq(disc_res.start_date, disc_res.end_date)

\* C2: when a required label is absent the call fails with the missing-field
\* error naming exactly the absent required labels, whatever the values are;
\* a required label present with a null value is not reported missing, and
\* with all three present the call fails only in the parsing of a value.
C2_MissingFieldsExact ==
    disc_pc = "done" =>
        /\ AbsentLabels # {} =>
              IsMissingFieldError /\ disc_res.missing = AbsentLabels
        /\ AbsentLabels = {} =>
              /\ ~ IsMissingFieldError
              /\ (\E l \in DOMAIN discovery_cells : discovery_cells[l] = None) =>
                    /\ disc_res.kind = "ValueError"
                    /\ disc_res.msg = "Failed to extract discovery data"

\* A call with one required label absent and another present with a null value.
C2_Witness ==
    /\ IsMissingFieldError
    /\ disc_res.missing # {}
    /\ \E l \in required_fields :
          l \in DOMAIN discovery_cells /\ discovery_cells[l] = None

(***************************************************************************)
(* Properties of parse_integer_value.                                      *)
(***************************************************************************)
\* Text that cannot be a number: a character that belongs to no number, or
\* no digit at all.
NonNumericText(s) ==
    \/ \E i \in 1..Len(s) : s[i] \notin DigitChars \cup {",", " ", "+", "-", "."}
    \/ \A i \in 1..Len(s) : s[i] \notin DigitChars

IntCoercionError(res) ==
    ~ res.ok /\ res.exc = "ValueError" /\ res.msg = "Failed to parse integer value"

\* q is n/10 truncated toward zero
TruncatedTenths(n, q) ==
    IF n >= 0 THEN 10 * q <= n /\ n < 10 * (q + 1)
    ELSE 10 * (q - 1) < n /\ n <= 10 * q

\* C3: the comma-separated text of k (with or without blanks around it), the
\* plain text of k, the numeric cell k.0 and the integer k all coerce to k; a
\* numeric cell with a fraction is truncated toward zero; None and
\* non-numeric text fail with the integer-coercion error.
C3_FormatAgnostic ==
    int_pc = "done" =>
        /\ int_form \in {"int", "float", "plain", "comma"} =>
              int_res.ok /\ int_res.val = int_k
        /\ int_form = "frac" =>
              int_res.ok /\ TruncatedTenths(int_k, int_res.val)
        /\ int_form = "none" => IntCoercionError(int_res)
        /\ int_form = "text" /\ NonNumericText(int_arg.s) =>
              IntCoercionError(int_res)

\* The text " 1,200 " (commas and blanks) has been coerced.
C3_Witness ==
    /\ int_pc = "done"
    /\ int_form = "comma"
    /\ int_k >= 1000
    /\ \E i \in 1..Len(int_arg.s) : int_arg.s[i] = ","
    /\ int_arg.s[1] = " " /\ int_arg.s[Len(int_arg.s)] = " "
    /\ int_res.ok

(***************************************************************************)
(* Properties of the TOP POSTS extractor.                                  *)
(***************************************************************************)
Parsed == top_pc = "parsed"
Entry(d, u) == d[IndexOf(d, u)]
NonNegative(f) == ~ FloatLess(f, FloatZero)

\* the first row whose columns 1-3 are all null, Len(grid) + 1 when none is
EngStopRow ==
    LET ends == {r \in 1..Len(grid) :
                    /\ grid[r].url = None
                    /\ grid[r].publish_date = None
                    /\ grid[r].engagements = None}
    IN  IF ends = {} THEN Len(grid) + 1
        ELSE CHOOSE r \in ends : \A q \in ends : r <= q
\* the first row whose columns 5 and 7 are both null
ImpStopRow ==
    LET ends == {r \in 1..Len(grid) :
                    grid[r].iurl = None /\ grid[r].impressions = None}
    IN  IF ends = {} THEN Len(grid) + 1
        ELSE CHOOSE r \in ends : \A q \in ends : r <= q
\* the rows of the engagement view that carry a url and a publish date
EngDataRows ==
    {r \in 1..(EngStopRow - 1) : grid[r].url # None /\ grid[r].publish_date # None}
\* the last of them for each url
LastEngRows ==
    {r \in EngDataRows : \A q \in EngDataRows : grid[q].url = grid[r].url => q <= r}

\* C4: scanning the impression view before the engagement view, with the same
\* per-row updates, gives every url the same final record as the order of
\* parse_top_posts_sheet.
C4_ScanOrderCommutes ==
    Parsed =>
        LET swapped == EngScan(ImpScan(<<>>, grid, 1), grid, 1)
        IN  /\ Keys(swapped) = Keys(posts)
            /\ \A u \in Keys(posts) : Entry(swapped, u) = Entry(posts, u)

\* the place of dict item j in the order: engagements descending, ties in
\* insertion order
RankOf(j) ==
    1 + Cardinality({k \in 1..Len(posts) :
                        \/ FloatLess(posts[j].engagements, posts[k].engagements)
                        \/ k < j /\ posts[k].engagements = posts[j].engagements})

\* C5: get_top_posts of the parsed list is the first min(6, N) of the N merged
\* records by engagements descending, ties in encounter order, and the entry
\* at position i carries rank i.
C5_TopSixRanked ==
    top_pc = "ranked" =>
        /\ Len(top_posts) = Min(6, Len(posts))
        /\ \A i \in 1..Len(top_posts) : top_posts[i].rank = i
        /\ \A j \in 1..Len(posts) :
              RankOf(j) <= 6 =>
                 /\ RankOf(j) <= Len(top_posts)
                 /\ DOMAIN top_posts[RankOf(j)] = (DOMAIN posts[j]) \cup {"rank"}
                 /\ \A x \in DOMAIN posts[j] : top_posts[RankOf(j)][x] = posts[j][x]

\* More than six merged records, a tie, and an insertion order that is not
\* the engagement order, ranked.
C5_Witness ==
    /\ top_pc = "ranked"
    /\ Len(posts) > 6
    /\ \E j, k \in 1..Len(posts) :
          j < k /\ posts[j].engagements = posts[k].engagements /\ RankOf(k) <= 6
    /\ \E j, k \in 1..Len(posts) :
          j < k /\ FloatLess(posts[j].engagements, posts[k].engagements)

\* C6: get_top_posts leaves the list it is given and every record in it
\* unchanged, and the grid is never written.
C6_GetTopPostsPure ==
    [][/\ grid' = grid
       /\ (top_pc = "parsed" /\ top_pc' = "ranked") => posts_list' = posts_list]_vars

\* C7: every numeric field of every returned record is non-negative.
C7_NonNegativeFields ==
    /\ Parsed =>
          \A i \in 1..Len(posts_list) :
             /\ NonNegative(posts_list[i].engagements)
             /\ NonNegative(posts_list[i].impressions)
    /\ IsDiscoveryData =>
          disc_res.total_impressions >= 0 /\ disc_res.members_reached >= 0

\* the engagement loop has just ended
EngagementScanDone == top_pc = "imp" /\ row_idx = 1

\* C8: the engagement scan stops at the first row whose three cells are all
\* null, so rows at or after it contribute nothing; a row before it with a
\* null url or publish date contributes nothing and does not stop the scan;
\* every row before it with url and publish date contributes an entry, with
\* engagements 0 when its engagements cell is null or non-numeric text.
C8_EngagementScan ==
    /\ top_pc = "eng" => row_idx <= EngStopRow
    /\ EngagementScanDone =>
          /\ Keys(posts) = {StrOf(grid[r].url) : r \in EngDataRows}
          /\ \A r \in LastEngRows :
                LET e == Entry(posts, StrOf(grid[r].url))
                    c == grid[r].engagements
                IN  /\ e.publish_date = StrOf(grid[r].publish_date)
                    /\ (c = None \/ (c.t = "str" /\ NonNumericText(c.s)))
                          => e.engagements = FloatZero

\* The scan has ended at an all-null row that a row with data follows; a row
\* before it with url and publish date has a null engagements cell.
C8_Witness ==
    /\ EngagementScanDone
    /\ EngStopRow < Len(grid)
    /\ \E r \in (EngStopRow + 1)..Len(grid) :
          grid[r].url # None /\ grid[r].publish_date # None
    /\ \E r \in 1..(EngStopRow - 1) :
          grid[r].url # None /\ grid[r].publish_date # None
          /\ grid[r].engagements = None

\* C9: every impression-view row before the first row with both cells null,
\* with a url that no engagement entry has, leaves an entry for that url with
\* publish_date "" and engagements 0, whatever its impressions cell holds.
C9_ImpressionOnlyKept ==
    Parsed =>
        \A r \in 1..(ImpStopRow - 1) :
           (grid[r].iurl # None
              /\ StrOf(grid[r].iurl) \notin {StrOf(grid[q].url) : q \in EngDataRows})
           => \E i \in 1..Len(posts_list) :
                 /\ posts_list[i].url = StrOf(grid[r].iurl)
                 /\ posts_list[i].publish_date = <<>>
                 /\ posts_list[i].engagements = FloatZero

\* the shared numeric rule of the discovery parser, lenient: blanks stripped
\* and commas removed before the text is read as a number, 0 when it is none
SharedRuleFloat(value) ==
    IF value.t = "str"
    THEN LET f == FloatOfText(Strip(RemoveCommas(value.s)))
         IN  IF f.ok THEN f.val ELSE FloatZero
    ELSE LenientFloat(value)

\* C10: engagements and impressions are coerced with the shared numeric rule,
\* so the text "1,200" gives 1200 like the numeric cell 1200.0.
C10_SharedNumericRule ==
    Parsed =>
        /\ \A r \in LastEngRows :
              \A i \in 1..Len(posts_list) :
                 posts_list[i].url = StrOf(grid[r].url) =>
                    posts_list[i].engagements = SharedRuleFloat(grid[r].engagements)
        /\ \A r \in 1..(ImpStopRow - 1) :
              (grid[r].iurl # None /\ grid[r].impressions # None
                 /\ \A q \in (r + 1)..(ImpStopRow - 1) : grid[q].iurl # grid[r].iurl)
              => \A i \in 1..Len(posts_list) :
                    posts_list[i].url = StrOf(grid[r].iurl) =>
                       posts_list[i].impressions = SharedRuleFloat(grid[r].impressions)

(***************************************************************************)
(* Properties of GET /discovery/{file_id}.                                 *)
(***************************************************************************)
\* the step is a GET answered from the store as it stands
IsGetStep ==
    /\ file_data_store' = file_data_store
    /\ <<request, response>>' # <<request, response>>

\* C11: a GET for a file_id never stored, or whose stored data has no
\* "discovery_data" key, is answered 404 and never 500; a GET for a file_id
\* whose most recently stored data holds discovery data returns that record.
C11_DiscoveryNotFoundIs404 ==
    [][IsGetStep =>
         LET f == request'
             stored == f \in DOMAIN file_data_store
         IN  /\ (~ stored \/ "discovery_data" \notin DOMAIN file_data_store[f]) =>
                   response'.status = 404
             /\ (stored /\ "discovery_data" \in DOMAIN file_data_store[f]
                   /\ file_data_store[f]["discovery_data"] # None) =>
                   /\ response'.status = 200
                   /\ \A x \in (DOMAIN file_data_store[f]["discovery_data"]) \ {"kind"} :
                         response'.body[x] = file_data_store[f]["discovery_data"][x]]_vars

====
